---------------------------- MODULE Spec2Model ----------------------------
(***************************************************************************)
(* TimeEditAPI (src/unnamed/part_000): the client's configuration, the     *)
(* asynchronous calls getCourseEvents and getCourseId (through parseHTML)  *)
(* with their await points, and the pure helpers the calls use: the row    *)
(* mapping, the three filter predicates and getKTHLocationURL.             *)
(*                                                                         *)
(* JavaScript strings are sequences of one-character strings, so that      *)
(* split(", ") and replace("§", "") are computed, not assumed.  A value    *)
(* that may be undefined is tagged: Str(s) or Undefined.                   *)
(***************************************************************************)
EXTENDS Integers, Sequences, FiniteSets, TLC

VARIABLES client, now, call, fn, arg, res

vars == <<client, now, call, fn, arg, res>>

-----------------------------------------------------------------------------
(* Bounds of the model *)

\* concurrent calls on the clients
NCalls == 2
\* rows in one reservations feed
MaxRows == 2
\* location tokens handed to getKTHLocationURL
MaxLocs == 2
\* characters of one location token
MaxTokenLen == 3
\* lecturers, and locations, of one event handed to filterEmptyEvents
MaxNames == 2

-----------------------------------------------------------------------------
(* JavaScript values *)

Null == [t |-> "null"]
Undefined == [t |-> "undefined"]
Str(s) == [t |-> "string", v |-> s]
Arr(a) == [t |-> "array", items |-> a]
\* a date string "yyyy-mm-dd", kept as <<year, month, day>>
DateStr(d) == [t |-> "string", date |-> d]

Value(v) == [t |-> "value", v |-> v]
\* what getCourseId resolves to
IdValue(id) == [t |-> "value", id |-> id]
Throw(e) == [t |-> "throw", error |-> e]
IsThrow(r) == r.t = "throw"

\* the section marker that getKTHLocationURL strips
Section == "§"

\* s.startsWith(p) at offset i (1-based)
MatchAt(s, p, i) ==
    /\ i + Len(p) - 1 <= Len(s)
    /\ \A k \in 1..Len(p) : s[i + k - 1] = p[k]

\* the offset of the first occurrence of p in s at or after i, 0 when none
RECURSIVE IndexFrom(_, _, _)
IndexFrom(s, p, i) ==
    IF i + Len(p) - 1 > Len(s) THEN 0
    ELSE IF MatchAt(s, p, i) THEN i
    ELSE IndexFrom(s, p, i + 1)

\* String.prototype.split(sep), sep non-empty
RECURSIVE Split(_, _)
Split(s, sep) ==
    LET i == IndexFrom(s, sep, 1)
    IN  IF i = 0 THEN <<s>>
        ELSE <<SubSeq(s, 1, i - 1)>> \o Split(SubSeq(s, i + Len(sep), Len(s)), sep)

\* String.prototype.replace(pattern, replacement) with a string pattern:
\* the first occurrence only
Replace(s, p, r) ==
    LET i == IndexFrom(s, p, 1)
    IN  IF i = 0 THEN s
        ELSE SubSeq(s, 1, i - 1) \o r \o SubSeq(s, i + Len(p), Len(s))

CommaSpace == <<",", " ">>

-----------------------------------------------------------------------------
(* luxon DateTime *)

\* DateTime.fromISO(`${date}T${time}`): date is <<year, month, day>>, time is
\* <<hour, minute>>
FromISO(date, time) ==
    [year |-> date[1], month |-> date[2], day |-> date[3],
     minute |-> time[1] * 60 + time[2]]

\* DateTime.fromSQL("yyyy-mm-dd"): midnight of that day
FromSQL(date) ==
    [year |-> date[1], month |-> date[2], day |-> date[3], minute |-> 0]

\* DateTime.valueOf(): the position on the time line that < compares
ValueOf(dt) ==
    ((dt.year * 12 + (dt.month - 1)) * 31 + (dt.day - 1)) * 1440 + dt.minute

HasSameYear(a, b) == a.year = b.year

-----------------------------------------------------------------------------
(* The pure helpers of TimeEditAPI *)

\* columns[i], JavaScript's 0-based index: undefined past the end
At(columns, i) == IF i + 1 <= Len(columns) THEN columns[i + 1] ELSE Undefined

\* `value == ''`
LooseEqualsEmpty(value) == value.t = "string" /\ value.v = <<>>

\* `if (value)`
Truthy(value) ==
    CASE value.t = "null" -> FALSE
      [] value.t = "undefined" -> FALSE
      [] value.t = "string" -> value # Str(<<>>)
      [] OTHER -> TRUE

UrlPrefix == "https://www.kth.se/search?q="
UrlSuffix == "&entityFilter=kth-place&filterLabel=Facilities&lang=en"

\* one turn of the forEach of getKTHLocationURL
LocationURL(location) ==
    LET locString == Replace(location, <<Section>>, <<>>)
    IN  <<UrlPrefix>> \o locString \o <<UrlSuffix>>

getKTHLocationURL(locations) ==
    [i \in 1..Len(locations) |-> LocationURL(locations[i])]

\* filterEmptyEvents without its check of the location
filterEmptyEventsNoLocation(event) ==
    IF Len(event.lecturers) = 0 THEN FALSE
    ELSE IF LooseEqualsEmpty(event.type) THEN FALSE
    ELSE TRUE

filterEmptyEvents(event) ==
    IF Len(event.lecturers) = 0 THEN FALSE
    ELSE IF Len(event.location) = 0 THEN FALSE
    ELSE IF LooseEqualsEmpty(event.type) THEN FALSE
    ELSE TRUE

\* currentSemester with July counted to the spring semester
currentSemesterWithJuly(dt) ==
    IF 1 < dt.month /\ dt.month <= 7 THEN {1, 2, 3, 4, 5, 6}
    ELSE IF 7 < dt.month /\ dt.month <= 12 THEN {8, 9, 10, 11, 12}
    ELSE {}

\* the months of the semester that holds the month dt of DateTime.now()
currentSemester(dt) ==
    IF 1 < dt.month /\ dt.month < 7 THEN {1, 2, 3, 4, 5, 6}
    ELSE IF 7 < dt.month /\ dt.month <= 12 THEN {8, 9, 10, 11, 12}
    ELSE {}

eventInCurrentKTHPeriod(event, dt) ==
    event.startDate.month \in currentSemester(dt) /\ HasSameYear(dt, event.startDate)

\* `this` is the receiver the function is called with
eventBeforeDate(this, event) ==
    IF this.t # "object" THEN Throw("TypeError: cannot read filterStartDate of undefined")
    ELSE Value(ValueOf(event.endDate) < ValueOf(FromSQL(this.filterStartDate.date)))

eventAfterDate(this, event) ==
    IF this.t # "object" THEN Throw("TypeError: cannot read filterEndDate of undefined")
    ELSE Value(ValueOf(event.startDate) < ValueOf(FromSQL(this.filterEndDate.date)))

\* the lecturers with the empty names left out
LecturersOfNonEmpty(column) ==
    LET Test(name) == name # <<>> IN SelectSeq(Split(column.v, CommaSpace), Test)

\* event.columns[3].split(", ")
LecturersOf(column) == Split(column.v, CommaSpace)

\* the callback of jsonData.reservations.map: an arrow function, `this` is
\* the client
MapRow(this, row) ==
    LET c3 == At(row.columns, 3)
        c4 == At(row.columns, 4)
    IN  IF c3.t # "string" THEN Throw("TypeError: columns[3].split")
        ELSE IF c4.t # "string" THEN Throw("TypeError: columns[4].split")
        ELSE Value([startDate |-> FromISO(row.startdate, row.starttime),
                    endDate |-> FromISO(row.enddate, row.endtime),
                    lecturers |-> LecturersOf(c3),
                    location |-> IF this.useKTHPlaces
                                 THEN getKTHLocationURL(Split(c4.v, CommaSpace))
                                 ELSE Split(c4.v, CommaSpace),
                    type |-> At(row.columns, 5)])

\* jsonData.reservations.map(...)
MapReservations(this, jsonData) ==
    LET rs == jsonData.reservations
    IN  IF rs.t # "array" THEN Throw("TypeError: reservations.map")
        ELSE LET m == [i \in 1..Len(rs.items) |-> MapRow(this, rs.items[i])]
             IN  IF \E i \in 1..Len(m) : IsThrow(m[i])
                 THEN m[CHOOSE i \in 1..Len(m) :
                          IsThrow(m[i]) /\ \A j \in 1..(i - 1) : ~IsThrow(m[j])]
                 ELSE Value([i \in 1..Len(m) |-> m[i].v])

\* Array.prototype.filter with the verdicts keep[i] already computed
RECURSIVE FilterSeq(_, _)
FilterSeq(s, keep) ==
    IF s = <<>> THEN <<>>
    ELSE LET rest == FilterSeq(Tail(s), [i \in 1..(Len(s) - 1) |-> keep[i + 1]])
         IN  IF keep[1] THEN <<Head(s)>> \o rest ELSE rest

\* the receiver Array.prototype.filter gives a callback passed without
\* thisArg (strict mode): not the client
CallbackThis == Undefined

\* Stages with eventAfterDate wired in as a fourth stage
StagesWithEndDate(this) ==
    (IF this.filterToSemester THEN <<"eventInCurrentKTHPeriod">> ELSE <<>>)
    \o (IF this.filterEmpty THEN <<"filterEmptyEvents">> ELSE <<>>)
    \o (IF Truthy(this.filterStartDate) THEN <<"eventBeforeDate">> ELSE <<>>)
    \o (IF Truthy(this.filterEndDate) THEN <<"eventAfterDate">> ELSE <<>>)

\* the callbacks getCourseEvents hands to courseEvents.filter, in the order
\* of its three `if` statements
Stages(this) ==
    (IF this.filterToSemester THEN <<"eventInCurrentKTHPeriod">> ELSE <<>>)
    \o (IF this.filterEmpty THEN <<"filterEmptyEvents">> ELSE <<>>)
    \o (IF Truthy(this.filterStartDate) THEN <<"eventBeforeDate">> ELSE <<>>)

\* one call of a callback by Array.prototype.filter; dt is DateTime.now()
Callback(name, dt, event) ==
    CASE name = "eventInCurrentKTHPeriod" -> Value(eventInCurrentKTHPeriod(event, dt))
      [] name = "filterEmptyEvents" -> Value(filterEmptyEvents(event))
      [] name = "eventBeforeDate" -> eventBeforeDate(CallbackThis, event)
      [] name = "eventAfterDate" -> eventAfterDate(CallbackThis, event)

\* courseEvents.filter(callback): the callback is called once per element, so
\* an empty list calls nothing
Filter(events, name, dt) ==
    LET r == [i \in 1..Len(events) |-> Callback(name, dt, events[i])]
    IN  IF \E i \in 1..Len(r) : IsThrow(r[i])
        THEN r[CHOOSE i \in 1..Len(r) :
                 IsThrow(r[i]) /\ \A j \in 1..(i - 1) : ~IsThrow(r[j])]
        ELSE Value(FilterSeq(events, [i \in 1..Len(r) |-> r[i].v]))

RECURSIVE RunStages(_, _, _)
RunStages(stages, dt, events) ==
    IF stages = <<>> THEN Value(events)
    ELSE LET r == Filter(events, Head(stages), dt)
         IN  IF IsThrow(r) THEN r ELSE RunStages(Tail(stages), dt, r.v)

\* getCourseEvents from `jsonData.reservations.map` to `return courseEvents`
CourseEventsOf(this, dt, jsonData) ==
    LET mapped == MapReservations(this, jsonData)
    IN  IF IsThrow(mapped) THEN mapped
        ELSE RunStages(Stages(this), dt, mapped.v)

\* the callbacks that part of getCourseEvents hands to filter
FiltersOf(this, jsonData) ==
    IF IsThrow(MapReservations(this, jsonData)) THEN <<>> ELSE Stages(this)

\* $('#objectbasketitemX0').attr('data-idonly') of cheerio.load(data)
CourseIdOf(data) == IF data.t = "html" THEN data.idonly ELSE Undefined

-----------------------------------------------------------------------------
(* node-fetch Response *)

\* response.json() / response.text(): <<the response afterwards, the promise>>.
\* A body is a stream that is read once.
ReadBody(response, as) ==
    IF response.bodyUsed
    THEN <<response, Throw("TypeError: body used already")>>
    ELSE IF as = "json" /\ response.body.t # "json"
    THEN <<[response EXCEPT !.bodyUsed = TRUE], Throw("FetchError: invalid json")>>
    ELSE <<[response EXCEPT !.bodyUsed = TRUE],
           Value(IF as = "json" THEN response.body.v ELSE response.body)>>

\* checkStatus(response)
checkStatus(response) ==
    IF response.ok THEN Value(response) ELSE Throw("HTTPResponseError")

-----------------------------------------------------------------------------
(* Inputs: the configurations, the clock and what the service answers *)

Date(y, m, d) == <<y, m, d>>
Time(h, m) == <<h, m>>

\* the year of the clock and the year before it
Years == <<2023, 2024>>
LastYear == Years[1]
ThisYear == Years[2]

BaseUrl == "https://cloud.timeedit.net/kth/web/public01/"

\* new TimeEditAPI({baseUrl, filterEmpty, filterToSemester, startDate, endDate,
\* useKTHPlaces})
Constructor(baseUrl, filterEmpty, filterToSemester, startDate, endDate, useKTHPlaces) ==
    [t |-> "object",
     baseUrl |-> baseUrl,
     filterEmpty |-> filterEmpty,
     filterToSemester |-> filterToSemester,
     filterStartDate |-> startDate,
     filterEndDate |-> endDate,
     useKTHPlaces |-> useKTHPlaces]

StartDates == {Null, DateStr(Date(ThisYear, 1, 1))}
EndDates == {Null, DateStr(Date(ThisYear, 6, 1))}

Configs ==
    {Constructor(BaseUrl, fe, fs, sd, ed, up) :
        fe \in BOOLEAN, fs \in BOOLEAN, sd \in StartDates, ed \in EndDates,
        up \in BOOLEAN}

Months == 1..12
Nows == [year : {ThisYear}, month : Months, day : {15}, minute : {0}]

Filler == Str(<<"x">>)
Columns(lecturers, location, type) ==
    <<Filler, Filler, Filler, Str(lecturers), Str(location), Str(type)>>

Reservation(date, columns) ==
    [startdate |-> date, starttime |-> Time(10, 0),
     enddate |-> date, endtime |-> Time(12, 0), columns |-> columns]

\* a spring lecture, two lecturers, a marked room
RowSpring ==
    Reservation(Date(ThisYear, 4, 10), Columns(<<"A", ",", " ", "B">>, <<Section, "R">>, <<"L">>))
\* last year's, over before the start date of StartDates
RowLastYear ==
    Reservation(Date(LastYear, 12, 31), Columns(<<"A">>, <<"R">>, <<"L">>))
\* an autumn lab with no lecturer
RowNoLecturer ==
    Reservation(Date(ThisYear, 9, 2), Columns(<<>>, <<"R">>, <<"L">>))
\* a spring event with no type
RowNoType ==
    Reservation(Date(ThisYear, 4, 11), Columns(<<"A">>, <<"R">>, <<>>))
\* rows with columns 0..4, 0..3 and 0..2 only
RowFiveColumns ==
    Reservation(Date(ThisYear, 4, 12), SubSeq(Columns(<<"A">>, <<"R">>, <<"L">>), 1, 5))
RowFourColumns ==
    Reservation(Date(ThisYear, 4, 12), SubSeq(Columns(<<"A">>, <<"R">>, <<"L">>), 1, 4))
RowThreeColumns ==
    Reservation(Date(ThisYear, 4, 12), SubSeq(Columns(<<"A">>, <<"R">>, <<"L">>), 1, 3))

Rows == {RowSpring, RowLastYear, RowNoLecturer, RowNoType,
         RowFiveColumns, RowFourColumns, RowThreeColumns}

SeqsUpTo(S, n) == UNION {[1..k -> S] : k \in 0..n}

Json(v) == [t |-> "json", v |-> v]
Html(idonly) == [t |-> "html", idonly |-> idonly]

JsonBodies ==
    {Json([reservations |-> Undefined]), Json([reservations |-> Str(<<"x">>)])}
    \cup {Json([reservations |-> Arr(rs)]) : rs \in SeqsUpTo(Rows, MaxRows)}

HtmlBodies == {Html(Str(<<"1", "2">>)), Html(Undefined)}

\* what the reservations URL and the search URL may answer
Served(kind) ==
    IF kind = "getCourseEvents" THEN JsonBodies \cup {Html(Undefined)} ELSE HtmlBodies

\* a feed small enough for interleaved calls
ServedFew(kind) ==
    IF kind = "getCourseEvents"
    THEN {Json([reservations |-> Undefined]),
          Json([reservations |-> Arr(<<RowSpring>>)]),
          Json([reservations |-> Arr(<<RowLastYear>>)])}
    ELSE HtmlBodies

Answers(feed, kind) == IF feed = "few" THEN ServedFew(kind) ELSE Served(kind)

Kinds == {"getCourseEvents", "getCourseId"}
Calls == 1..NCalls

-----------------------------------------------------------------------------
(* The calls *)

Idle(target) ==
    [kind |-> "none", self |-> target, pc |-> "idle", requests |-> <<>>,
     response |-> Null, pending |-> Null, logged |-> 0, filters |-> <<>>,
     outcome |-> Null]

getCourseUrl(this) == <<this.baseUrl, "ri.json">>
getSearchURL(this) == <<this.baseUrl, "objects.html">>

BodyAs(kind) == IF kind = "getCourseEvents" THEN "json" ELSE "text"

\* the call starts: the URL is built and fetch(url) is awaited
Start(c, kind) ==
    /\ call[c].pc = "idle"
    /\ call' = [call EXCEPT ![c].kind = kind,
                            ![c].pc = "fetch",
                            ![c].requests = Append(@,
                                IF kind = "getCourseEvents"
                                THEN getCourseUrl(client[call[c].self])
                                ELSE getSearchURL(client[call[c].self]))]
    /\ UNCHANGED <<client, now, fn, arg, res>>

\* fetch rejects (a network failure): the call rejects
FetchReject(c) ==
    /\ call[c].pc = "fetch"
    /\ call' = [call EXCEPT ![c].pc = "done",
                            ![c].outcome = Throw("FetchError: request failed")]
    /\ UNCHANGED <<client, now, fn, arg, res>>

\* fetch resolves: checkStatus, then either the catch block up to its await
\* of error.response.text(), or the await of response.json() / text()
FetchResolve(c, ok, body) ==
    /\ call[c].pc = "fetch"
    /\ LET response == [ok |-> ok, body |-> body, bodyUsed |-> FALSE]
           status == checkStatus(response)
           read == IF IsThrow(status) THEN ReadBody(response, "text")
                   ELSE ReadBody(response, BodyAs(call[c].kind))
       IN  call' = [call EXCEPT ![c].pc = IF IsThrow(status) THEN "errorBody" ELSE "body",
                                ![c].logged = IF IsThrow(status) THEN 1 ELSE 0,
                                ![c].response = read[1],
                                ![c].pending = read[2]]
    /\ UNCHANGED <<client, now, fn, arg, res>>

\* the catch block after `await error.response.text()`, then the await of
\* response.json() / text() on the same response
ErrorBodySettle(c) ==
    /\ call[c].pc = "errorBody"
    /\ IF IsThrow(call[c].pending)
       THEN call' = [call EXCEPT ![c].pc = "done", ![c].outcome = call[c].pending]
       ELSE LET read == ReadBody(call[c].response, BodyAs(call[c].kind))
            IN  call' = [call EXCEPT ![c].pc = "body",
                                     ![c].logged = 2,
                                     ![c].response = read[1],
                                     ![c].pending = read[2]]
    /\ UNCHANGED <<client, now, fn, arg, res>>

\* BodySettle that also switches the client's semester filter off
BodySettleWritesConfig(c) ==
    /\ call[c].pc = "body"
    /\ call' = [call EXCEPT
          ![c].pc = "done",
          ![c].filters =
              IF ~IsThrow(call[c].pending) /\ call[c].kind = "getCourseEvents"
              THEN FiltersOf(client[call[c].self], call[c].pending.v)
              ELSE <<>>,
          ![c].outcome =
              IF IsThrow(call[c].pending) THEN call[c].pending
              ELSE IF call[c].kind = "getCourseEvents"
              THEN CourseEventsOf(client[call[c].self], now, call[c].pending.v)
              ELSE IdValue(CourseIdOf(call[c].pending.v))]
    /\ client' = [client EXCEPT ![call[c].self].filterToSemester = FALSE]
    /\ UNCHANGED <<now, fn, arg, res>>

\* response.json() / text() settles: the rest of the call, to its return
BodySettle(c) ==
    /\ call[c].pc = "body"
    /\ call' = [call EXCEPT
          ![c].pc = "done",
          ![c].filters =
              IF ~IsThrow(call[c].pending) /\ call[c].kind = "getCourseEvents"
              THEN FiltersOf(client[call[c].self], call[c].pending.v)
              ELSE <<>>,
          ![c].outcome =
              IF IsThrow(call[c].pending) THEN call[c].pending
              ELSE IF call[c].kind = "getCourseEvents"
              THEN CourseEventsOf(client[call[c].self], now, call[c].pending.v)
              ELSE IdValue(CourseIdOf(call[c].pending.v))]
    /\ UNCHANGED <<client, now, fn, arg, res>>

\* one step of call c; the service answers from `feed`
Step(c, feed) ==
    \/ \E kind \in Kinds : Start(c, kind)
    \/ FetchReject(c)
    \/ /\ call[c].pc = "fetch"
       /\ \E ok \in BOOLEAN : \E body \in Answers(feed, call[c].kind) : FetchResolve(c, ok, body)
    \/ ErrorBodySettle(c)
    \/ BodySettle(c)

\* one client, one call, every answer of the service
Init ==
    /\ \E config \in Configs : client = [i \in Calls |-> config]
    /\ now \in Nows
    /\ call = [c \in Calls |-> Idle(1)]
    /\ fn = "none" /\ arg = Null /\ res = Null

Next == Step(1, "all")

Spec == Init /\ [][Next]_vars

\* a clock in the spring semester and one between the semesters
ConcNows == {n \in Nows : n.month \in {3, 7}}

\* one client, interleaved calls, a small feed
ConcInit ==
    /\ \E config \in Configs : client = [i \in Calls |-> config]
    /\ now \in ConcNows
    /\ call = [c \in Calls |-> Idle(1)]
    /\ fn = "none" /\ arg = Null /\ res = Null

ConcNext == \E c \in Calls : Step(c, "few")

ConcSpec == ConcInit /\ [][ConcNext]_vars

\* one client per call, the clients alike but for endDate
PairInit ==
    /\ client \in [Calls -> Configs]
    /\ \A i, j \in Calls : [client[i] EXCEPT !.filterEndDate = Null]
                             = [client[j] EXCEPT !.filterEndDate = Null]
    /\ now \in ConcNows
    /\ call = [c \in Calls |-> Idle(c)]
    /\ fn = "none" /\ arg = Null /\ res = Null

PairSpec == PairInit /\ [][ConcNext]_vars

-----------------------------------------------------------------------------
(* The pure helpers applied to inputs of their own *)

Names == {<<>>, <<"A">>}
Types == {Str(<<>>), Str(<<"L">>), Undefined}

SomeDay == FromISO(Date(ThisYear, 4, 10), Time(10, 0))

\* events as filterEmptyEvents may be handed them
EventInputs ==
    [startDate : {SomeDay}, endDate : {SomeDay},
     lecturers : SeqsUpTo(Names, MaxNames),
     location : SeqsUpTo(Names, MaxNames),
     type : Types]

\* location tokens with the section marker anywhere, any number of times
Tokens == SeqsUpTo({Section, "R"}, MaxTokenLen)
LocationInputs == SeqsUpTo(Tokens, MaxLocs)

\* rows with every combination of empty and non-empty columns 3, 4 and 5,
\* and the rows of the feed
RowInputs ==
    Rows \cup
    {Reservation(Date(ThisYear, 4, 10), Columns(l, p, y)) :
        l \in {<<>>, <<"A">>, <<"A", ",", " ", "B">>},
        p \in {<<>>, <<"R">>, <<Section, "R", ",", " ", "R">>},
        y \in {<<>>, <<"L">>}}

ApplyFilterEmptyEvents(event) ==
    /\ fn = "none"
    /\ fn' = "filterEmptyEvents"
    /\ arg' = [event |-> event]
    /\ res' = [kept |-> filterEmptyEvents(event)]
    /\ UNCHANGED <<client, now, call>>

ApplyGetKTHLocationURL(locations) ==
    /\ fn = "none"
    /\ fn' = "getKTHLocationURL"
    /\ arg' = [locations |-> locations]
    /\ res' = [urls |-> getKTHLocationURL(locations)]
    /\ UNCHANGED <<client, now, call>>

ApplyMapRow(row) ==
    /\ fn = "none"
    /\ fn' = "map"
    /\ arg' = [row |-> row]
    /\ res' = [mapped |-> MapRow(client[1], row)]
    /\ UNCHANGED <<client, now, call>>

\* the mapped event handed on to filterEmptyEvents, as getCourseEvents does
ApplyFilterToMapped ==
    /\ fn = "map"
    /\ ~IsThrow(res.mapped)
    /\ fn' = "map.filterEmptyEvents"
    /\ arg' = [row |-> arg.row, event |-> res.mapped.v]
    /\ res' = [kept |-> filterEmptyEvents(res.mapped.v)]
    /\ UNCHANGED <<client, now, call>>

\* a client with the constructor's defaults, but for useKTHPlaces
FuncInit ==
    /\ \E useKTHPlaces \in BOOLEAN :
          client = [i \in Calls |->
                      Constructor(BaseUrl, FALSE, TRUE, Null, Null, useKTHPlaces)]
    /\ now \in ConcNows
    /\ call = [c \in Calls |-> Idle(1)]
    /\ fn = "none" /\ arg = Null /\ res = Null

FuncNext ==
    \/ \E event \in EventInputs : ApplyFilterEmptyEvents(event)
    \/ \E locations \in LocationInputs : ApplyGetKTHLocationURL(locations)
    \/ \E row \in RowInputs : ApplyMapRow(row)
    \/ ApplyFilterToMapped

FuncSpec == FuncInit /\ [][FuncNext]_vars

-----------------------------------------------------------------------------
(* What the specification says of the filters *)

Range(s) == {s[i] : i \in 1..Len(s)}

\* P(m): the months of the period of evaluation month m
Period(m) ==
    IF m \in 2..6 THEN {1, 2, 3, 4, 5, 6}
    ELSE IF m \in 8..12 THEN {8, 9, 10, 11, 12}
    ELSE {}

InSemester(event, dt) ==
    event.startDate.year = dt.year /\ event.startDate.month \in Period(dt.month)

NonEmptyFields(event) ==
    /\ Len(event.lecturers) # 0
    /\ Len(event.location) # 0
    /\ event.type # Str(<<>>)

EndsBefore(event, date) == ValueOf(event.endDate) < ValueOf(FromSQL(date))

\* the events of `events` that pass every filter the configuration enables
Passing(this, dt, events) ==
    LET Test(e) == /\ this.filterToSemester => InSemester(e, dt)
                   /\ this.filterEmpty => NonEmptyFields(e)
                   /\ Truthy(this.filterStartDate) => EndsBefore(e, this.filterStartDate.date)
    IN  SelectSeq(events, Test)

\* the events that reach the start-date stage
ReachingStartDate(this, dt, events) ==
    LET Test(e) == /\ this.filterToSemester => InSemester(e, dt)
                   /\ this.filterEmpty => NonEmptyFields(e)
    IN  SelectSeq(events, Test)

WithoutSection(s) == LET Test(ch) == ch # Section IN SelectSeq(s, Test)

\* a getCourseEvents call that has returned or thrown after its JSON was read
Parsed(c) ==
    /\ call[c].pc = "done"
    /\ call[c].kind = "getCourseEvents"
    /\ call[c].pending # Null
    /\ ~IsThrow(call[c].pending)

This(c) == client[call[c].self]
JsonData(c) == call[c].pending.v
MappedEvents(c) == MapReservations(This(c), JsonData(c))

AllDateTimes == [year : Range(Years), month : Months, day : {1, 15}, minute : {0}]

\* C1: the semester filter keeps an event iff its start year is the clock's
\* year and its start month is in P(clock month); a call with the semester
\* filter alone returns exactly those events, and in months 1 and 7 a call
\* with filterToSemester returns no event.
C1_SemesterFilter ==
    /\ \A d \in AllDateTimes :
          eventInCurrentKTHPeriod([startDate |-> d], now) <=> InSemester([startDate |-> d], now)
    /\ \A c \in Calls :
          Parsed(c) /\ ~IsThrow(call[c].outcome) /\ This(c).filterToSemester =>
             /\ \A i \in 1..Len(call[c].outcome.v) : InSemester(call[c].outcome.v[i], now)
             /\ Stages(This(c)) = <<"eventInCurrentKTHPeriod">> =>
                   call[c].outcome.v = Passing(This(c), now, MappedEvents(c).v)
             /\ now.month \in {1, 7} => call[c].outcome.v = <<>>

C1_Witness ==
    /\ now.month = 7
    /\ Parsed(1) /\ This(1).filterToSemester
    /\ ~IsThrow(MappedEvents(1)) /\ MappedEvents(1).v # <<>>
    /\ call[1].outcome = Value(<<>>)

\* C2: with filterStartDate set and an event reaching the stage, the call
\* completes and keeps exactly the events whose endDate is before the date.
C2_StartDateFilter ==
    \A c \in Calls :
       ( /\ Parsed(c) /\ call[c].response.ok
         /\ Truthy(This(c).filterStartDate)
         /\ ~IsThrow(MappedEvents(c))
         /\ ReachingStartDate(This(c), now, MappedEvents(c).v) # <<>> )
       => call[c].outcome = Value(Passing(This(c), now, MappedEvents(c).v))

\* what a call makes of a body it reads for the first time
Processed(kind, this, dt, body) ==
    LET read == ReadBody([ok |-> TRUE, body |-> body, bodyUsed |-> FALSE], BodyAs(kind))[2]
    IN  IF IsThrow(read) THEN read
        ELSE IF kind = "getCourseEvents" THEN CourseEventsOf(this, dt, read.v)
        ELSE IdValue(CourseIdOf(read.v))

\* C3: after a non-success status the error and the body are logged and the
\* call goes on with the same response: its outcome is what the body yields.
C3_LogAndContinue ==
    \A c \in Calls :
       (call[c].pc = "done" /\ call[c].response # Null /\ ~call[c].response.ok)
       => /\ call[c].logged = 2
          /\ call[c].outcome = Processed(call[c].kind, This(c), now, call[c].response.body)

\* no reservations sequence, or a row without a column at 3, 4 or 5
Malformed(jsonData) ==
    \/ jsonData.reservations.t # "array"
    \/ \E i \in 1..Len(jsonData.reservations.items) : \E k \in {3, 4, 5} :
          At(jsonData.reservations.items[i].columns, k) = Undefined

\* C4: a malformed body fails the whole call.
C4_MalformedDataTerminal ==
    \A c \in Calls : Parsed(c) /\ Malformed(JsonData(c)) => IsThrow(call[c].outcome)

\* C5: the list returned is the mapped events that pass every enabled
\* predicate, in their order.
C5_PipelineComposition ==
    \A c \in Calls :
       Parsed(c) /\ ~IsThrow(MappedEvents(c))
       => call[c].outcome = Value(Passing(This(c), now, MappedEvents(c).v))

\* C6: filterEmptyEvents drops an event iff it has no lecturer, or no
\* location, or the empty type.
C6_EmptyFieldFilter ==
    fn = "filterEmptyEvents" => (res.kept <=> NonEmptyFields(arg.event))

C6_Witness ==
    /\ fn = "filterEmptyEvents"
    /\ res.kept = FALSE
    /\ Len(arg.event.lecturers) # 0
    /\ Len(arg.event.location) = 0
    /\ arg.event.type # Str(<<>>)

\* C7: getKTHLocationURL maps each token to the URL of the token without any
\* section marker, one URL per token.
C7_LocationResolver ==
    fn = "getKTHLocationURL" =>
       /\ Len(res.urls) = Len(arg.locations)
       /\ \A i \in 1..Len(arg.locations) :
             /\ res.urls[i] = <<UrlPrefix>> \o WithoutSection(arg.locations[i]) \o <<UrlSuffix>>
             /\ Section \notin Range(res.urls[i])

\* the first request a call of this kind makes
RequestOf(kind, this) ==
    IF kind = "getCourseEvents" THEN getCourseUrl(this) ELSE getSearchURL(this)

\* the outcome of a call that runs alone
Alone(kind, this, dt, response) ==
    IF response = Null THEN Throw("FetchError: request failed")
    ELSE LET first == [response EXCEPT !.bodyUsed = FALSE]
             logged == IF first.ok THEN first ELSE ReadBody(first, "text")[1]
             read == ReadBody(logged, BodyAs(kind))[2]
         IN  IF IsThrow(read) THEN read
             ELSE IF kind = "getCourseEvents" THEN CourseEventsOf(this, dt, read.v)
             ELSE IdValue(CourseIdOf(read.v))

C8_EachCall ==
    \A c \in Calls :
       /\ call[c].pc = "idle" => call[c].requests = <<>>
       /\ call[c].pc # "idle" => call[c].requests = <<RequestOf(call[c].kind, This(c))>>
       /\ call[c].pc = "done" =>
             call[c].outcome = Alone(call[c].kind, This(c), now, call[c].response)

\* C8: interleaved calls on one client write no configuration, make one
\* request each and end as they would alone.
C8_ConcurrentCalls == [](C8_EachCall) /\ [][client' = client]_vars

C8_Witness ==
    /\ call[1].pc = "done" /\ call[1].kind = "getCourseEvents"
    /\ ~IsThrow(call[1].outcome) /\ call[1].outcome.v # <<>>
    /\ call[2].pc = "body" /\ call[2].kind = "getCourseId"

\* C9: a row with the empty string at columns[3] maps to lecturers = [""],
\* which filterEmptyEvents does not take for empty.
C9_EmptyLecturer ==
    /\ (fn = "map" /\ At(arg.row.columns, 3) = Str(<<>>)
                    /\ At(arg.row.columns, 4).t = "string")
       => ~IsThrow(res.mapped) /\ res.mapped.v.lecturers = << <<>> >>
    /\ (fn = "map.filterEmptyEvents" /\ At(arg.row.columns, 3) = Str(<<>>))
       => /\ arg.event.lecturers = << <<>> >>
          /\ res.kept <=> (Len(arg.event.location) # 0 /\ arg.event.type # Str(<<>>))

C9_Witness ==
    /\ fn = "map.filterEmptyEvents"
    /\ At(arg.row.columns, 3) = Str(<<>>)
    /\ res.kept = TRUE

SameAnswer(c, d) ==
    \/ call[c].response = Null /\ call[d].response = Null
    \/ /\ call[c].response # Null /\ call[d].response # Null
       /\ call[c].response.ok = call[d].response.ok
       /\ call[c].response.body = call[d].response.body

\* C10: clients that differ in endDate alone end getCourseEvents alike on the
\* same answer, and eventAfterDate is never handed to filter.
C10_EndDateUnused ==
    \A c, d \in Calls :
       /\ "eventAfterDate" \notin Range(call[c].filters)
       /\ ( /\ call[c].pc = "done" /\ call[d].pc = "done"
            /\ call[c].kind = "getCourseEvents" /\ call[d].kind = "getCourseEvents"
            /\ SameAnswer(c, d) )
          => call[c].outcome = call[d].outcome

C10_Witness ==
    /\ This(1).filterEndDate # This(2).filterEndDate
    /\ Parsed(1) /\ Parsed(2) /\ SameAnswer(1, 2)
    /\ ~IsThrow(call[1].outcome) /\ call[1].outcome.v # <<>>

=============================================================================
